---- MODULE Spec2Model ----
(***************************************************************************)
(* Model of the WebSocket <-> NATS relay of main.js: per-connection        *)
(* closure state (clientChannel, clientUid, ws.natsSub, ws.readyState),    *)
(* the channels map, the broker subscriptions with their forwarding loops, *)
(* the two tables reached through pool.query, the handlers suspended on    *)
(* an await, and the setTimeout callbacks of toggle-device.                *)
(***************************************************************************)
EXTENDS Integers, Sequences, FiniteSets, TLC

\* ------------------------------------------------------------------ bounds
MaxFrames      == 3     \* inbound frames handled in one run, all connections
MaxStoreFrames == 2     \* the same, in the runs whose frames all wait on the store

\* ------------------------------------------------------------------ inputs
Conns   == {"w1", "w2"}                 \* accepted WebSocket connections
Chans   == {"A", "B"}                   \* channelName values of frames
Wild    == "*"                          \* a channelName that is a NATS wildcard token
Uids    == {"u1", "u2"}
UidOf(c) == IF c = "w1" THEN "u1" ELSE "u2"   \* the uid a client puts in its frames
Devices == {"camera", "mic"}
MsgIds  == {1, 2}                       \* messageId values of delete-message frames
Null    == "null"

VARIABLES
    clientChannel,        \* [Conns -> Chans \cup {Null}]   let clientChannel
    clientUid,            \* [Conns -> Uids \cup {Null}]    let clientUid
    natsSub,              \* [Conns -> Nat]  ws.natsSub: index into subs, 0 = unset
    readyState,           \* [Conns -> {"OPEN","CLOSING","CLOSED"}]  ws.readyState
    channels,             \* the Map channelName -> Set<WebSocket>, keyed by its DOMAIN
    subs,                 \* every subscription nc.subscribe returned, in creation order
    wire,                 \* MSG frames on their way from the broker to this client, in order
    inbox,                \* [Conns -> Seq]  what ws.send wrote to each transport
    chat_messages,        \* rows of table chat_messages
    nextId,               \* AUTO_INCREMENT of chat_messages.id
    meeting_participants, \* rows of table meeting_participants, keyed by <<channel, uid>>
    frames,               \* every frame handled so far with its handler's position
    timers,               \* pending setTimeout(..., 100) callbacks, in firing order
    published,            \* log of nc.publish calls
    lateSends             \* ws.send calls made on a socket that was not open

vars == << clientChannel, clientUid, natsSub, readyState, channels, subs, wire, inbox,
           chat_messages, nextId, meeting_participants, frames, timers, published, lateSends >>

\* ------------------------------------------------------------------ broker
\* `meeting.${channelName}`: the subject as its dot-separated tokens.
Topic(channelName) == << "meeting", channelName >>

\* NATS subject matching of a subscription subject against a published subject:
\* "*" matches one token, ">" matches one or more trailing tokens.
RECURSIVE TokensMatch(_, _)
TokensMatch(pat, subj) ==
    IF pat = << >> THEN subj = << >>
    ELSE IF subj = << >> THEN FALSE
    ELSE IF Head(pat) = ">" THEN Len(pat) = 1
    ELSE /\ (Head(pat) = "*" \/ Head(pat) = Head(subj))
         /\ TokensMatch(Tail(pat), Tail(subj))

SubjectMatches(pat, subj) == TokensMatch(pat, subj)

\* The subscriptions a publish on topic is routed to.
Routed(topic) ==
    { i \in DOMAIN subs : subs[i].live /\ SubjectMatches(subs[i].subject, topic) }

\* One MSG per routed subscription, all on the one broker connection nc.
RECURSIVE Fanout(_, _)
Fanout(to, payload) ==
    IF to = {} THEN << >>
    ELSE LET i == CHOOSE j \in to : \A k \in to : j <= k
         IN  << [sub |-> i, payload |-> payload] >> \o Fanout(to \ {i}, payload)

\* nc.publish(topic, sc.encode(JSON.stringify(ev))) issued by the handler of
\* frame fid.  pid and fid tag the payload so that copies can be counted; the log
\* entry keeps the subscriptions routed to and the channel's member set at that time.
Publish(topic, ev, fid) ==
    LET pid     == Len(published) + 1
        payload == [pid |-> pid, fid |-> fid, msg |-> ev]
        to      == Routed(topic)
    IN  /\ wire' = wire \o Fanout(to, payload)
        /\ published' = Append(published,
               [topic |-> topic, payload |-> payload, to |-> to,
                members |-> IF ev.channelName \in DOMAIN channels
                            THEN channels[ev.channelName] ELSE {}])

\* ------------------------------------------------------------------ transport
\* ws.send(text): written when the socket is open; on a socket that is not open
\* nothing reaches the peer (ws throws or discards, by version) and the call is
\* recorded in lateSends.
WsSend(c, payload) ==
    IF readyState[c] = "OPEN"
    THEN /\ inbox' = [inbox EXCEPT ![c] = Append(@, payload)]
         /\ UNCHANGED lateSends
    ELSE /\ lateSends' = lateSends \cup {<< c, payload.pid, payload.fid >>}
         /\ UNCHANGED inbox

Reply(fid, ev) == [pid |-> 0, fid |-> fid, msg |-> ev]

\* catch (err) { ws.send(JSON.stringify({ action: 'error', message: err.message })) }
CatchSend(c, fid, text) == WsSend(c, Reply(fid, [action |-> "error", message |-> text]))

Init ==
    /\ clientChannel = [c \in Conns |-> Null]
    /\ clientUid = [c \in Conns |-> Null]
    /\ natsSub = [c \in Conns |-> 0]
    /\ readyState = [c \in Conns |-> "OPEN"]
    /\ channels = << >>
    /\ subs = << >>
    /\ wire = << >>
    /\ inbox = [c \in Conns |-> << >>]
    /\ chat_messages = {}
    /\ nextId = 1
    /\ meeting_participants =
           [k \in {<<"A", "u1">>} |-> [is_camera_off |-> FALSE, is_muted |-> FALSE]]
    /\ frames = << >>
    /\ timers = << >>
    /\ published = << >>
    /\ lateSends = {}

\* A 'message' event is emitted only while the socket is open.
CanReceive(c) == readyState[c] = "OPEN" /\ Len(frames) < MaxFrames

\* channels.has / channels.set(new Set()) / channels.get(channelName).add(ws)
ChannelsAdd(chs, channelName, c) ==
    IF channelName \in DOMAIN chs
    THEN [chs EXCEPT ![channelName] = @ \cup {c}]
    ELSE [k \in DOMAIN chs \cup {channelName} |->
             IF k = channelName THEN {c} ELSE chs[k]]

\* nc.subscribe(subject): a new live subscription.
NewSub(c, subject) == [owner |-> c, subject |-> subject, live |-> TRUE]

\* A join that first leaves the channel joined before and ends its subscription.
JoinReleasingPrevious(c, channelName) ==
    LET fid == Len(frames) + 1
        left == IF clientChannel[c] # Null /\ clientChannel[c] \in DOMAIN channels
                THEN [channels EXCEPT ![clientChannel[c]] = @ \ {c}]
                ELSE channels
        ended == IF natsSub[c] # 0 THEN [subs EXCEPT ![natsSub[c]].live = FALSE] ELSE subs
    IN
    /\ CanReceive(c)
    /\ clientChannel' = [clientChannel EXCEPT ![c] = channelName]
    /\ clientUid' = [clientUid EXCEPT ![c] = UidOf(c)]
    /\ channels' = ChannelsAdd(left, channelName, c)
    /\ subs' = Append(ended, NewSub(c, Topic(channelName)))
    /\ natsSub' = [natsSub EXCEPT ![c] = Len(subs) + 1]
    /\ WsSend(c, Reply(fid, [action |-> "joined", channelName |-> channelName]))
    /\ frames' = Append(frames, [conn |-> c, stage |-> "done", ok |-> TRUE,
                                 msg |-> [action |-> "join", channelName |-> channelName]])
    /\ UNCHANGED << readyState, wire, chat_messages, nextId, meeting_participants,
                    timers, published >>

\* case 'join'
Join(c, channelName) ==
    LET fid == Len(frames) + 1 IN
    /\ CanReceive(c)
    /\ clientChannel' = [clientChannel EXCEPT ![c] = channelName]
    /\ clientUid' = [clientUid EXCEPT ![c] = UidOf(c)]
    /\ channels' = ChannelsAdd(channels, channelName, c)
    /\ subs' = Append(subs, NewSub(c, Topic(channelName)))
    /\ natsSub' = [natsSub EXCEPT ![c] = Len(subs) + 1]
    /\ WsSend(c, Reply(fid, [action |-> "joined", channelName |-> channelName]))
    /\ frames' = Append(frames, [conn |-> c, stage |-> "done", ok |-> TRUE,
                                 msg |-> [action |-> "join", channelName |-> channelName]])
    /\ UNCHANGED << readyState, wire, chat_messages, nextId, meeting_participants,
                    timers, published >>

\* case 'join' when nc.subscribe throws: the assignments and the channels.add
\* before it have happened, ws.natsSub is not assigned, the catch block replies.
JoinSubscribeThrows(c, channelName) ==
    LET fid == Len(frames) + 1 IN
    /\ CanReceive(c)
    /\ clientChannel' = [clientChannel EXCEPT ![c] = channelName]
    /\ clientUid' = [clientUid EXCEPT ![c] = UidOf(c)]
    /\ channels' = ChannelsAdd(channels, channelName, c)
    /\ CatchSend(c, fid, "subscribe")
    /\ frames' = Append(frames, [conn |-> c, stage |-> "done", ok |-> FALSE,
                                 msg |-> [action |-> "join", channelName |-> channelName]])
    /\ UNCHANGED << natsSub, subs, wire, readyState, chat_messages, nextId,
                    meeting_participants, timers, published >>

\* The loop body without its readyState test.
ForwardPayloadUnchecked(c, payload) == WsSend(c, payload)

\* for await (const m of sub) { if (ws.readyState === OPEN) ws.send(sc.decode(m.data)) }
ForwardPayload(c, payload) ==
    IF readyState[c] = "OPEN"
    THEN WsSend(c, payload)
    ELSE UNCHANGED << inbox, lateSends >>

\* The next MSG arrives: the iterator of its subscription yields it to the
\* forwarding loop; a MSG for a subscription already unsubscribed is discarded.
Forward ==
    /\ wire # << >>
    /\ IF subs[Head(wire).sub].live
       THEN ForwardPayload(subs[Head(wire).sub].owner, Head(wire).payload)
       ELSE UNCHANGED << inbox, lateSends >>
    /\ wire' = Tail(wire)
    /\ UNCHANGED << clientChannel, clientUid, natsSub, readyState, channels, subs,
                    chat_messages, nextId, meeting_participants, frames, timers, published >>

\* The transport starts closing (close frame received, socket ended): readyState
\* leaves OPEN before the 'close' event is emitted.
BeginClose(c) ==
    /\ readyState[c] = "OPEN"
    /\ readyState' = [readyState EXCEPT ![c] = "CLOSING"]
    /\ UNCHANGED << clientChannel, clientUid, natsSub, channels, subs, wire, inbox,
                    chat_messages, nextId, meeting_participants, frames, timers,
                    published, lateSends >>

\* if (clientChannel && channels.has(clientChannel)) channels.get(clientChannel).delete(ws)
CloseMembership(chs, c) ==
    IF clientChannel[c] # Null /\ clientChannel[c] \in DOMAIN chs
    THEN [chs EXCEPT ![clientChannel[c]] = @ \ {c}]
    ELSE chs

\* if (ws.natsSub) ws.natsSub.unsubscribe()
CloseUnsubscribe(ss, c) ==
    IF natsSub[c] # 0 THEN [ss EXCEPT ![natsSub[c]].live = FALSE] ELSE ss

\* ws.on('close', ...)
OnClose(c) ==
    /\ readyState[c] # "CLOSED"
    /\ readyState' = [readyState EXCEPT ![c] = "CLOSED"]
    /\ channels' = CloseMembership(channels, c)
    /\ subs' = CloseUnsubscribe(subs, c)
    /\ UNCHANGED << clientChannel, clientUid, natsSub, wire, inbox, chat_messages, nextId,
                    meeting_participants, frames, timers, published, lateSends >>

\* ------------------------------------------------------------------ store
\* INSERT INTO chat_messages (channel_name, uid, username, message) VALUES (?, ?, ?, ?)
\* created_at is filled in by the store from its clock, which has ties: ClockAt is
\* the clock's reading when the row with this id is inserted, two inserts a tick.
ClockAt(id) == (id + 1) \div 2

InsertMessage(rows, id, m) ==
    rows \cup { [id |-> id, channel_name |-> m.channelName, uid |-> m.uid,
                 username |-> m.username, message |-> m.message,
                 created_at |-> ClockAt(id)] }

\* The DELETE without its channel_name condition.
DeleteMessageRowsById(rows, messageId, channelName) ==
    { r \in rows : r.id # messageId }

\* DELETE FROM chat_messages WHERE id = ? AND channel_name = ?
DeleteMessageRows(rows, messageId, channelName) ==
    { r \in rows : ~(r.id = messageId /\ r.channel_name = channelName) }

\* UPDATE meeting_participants SET is_camera_off = ?, is_muted = ?
\*   WHERE channel_name = ? AND uid = ?
UpdateStatusRows(mp, m) ==
    IF << m.channelName, m.uid >> \in DOMAIN mp
    THEN [mp EXCEPT ![<< m.channelName, m.uid >>] =
             [is_camera_off |-> m.isCameraOff, is_muted |-> m.isMuted]]
    ELSE mp

\* UPDATE meeting_participants SET is_camera_off = ? | is_muted = ?
\*   WHERE channel_name = ? AND uid = String(targetUid), with value !msg.state
ToggleRows(mp, m) ==
    IF << m.channelName, m.targetUid >> \in DOMAIN mp
    THEN IF m.device = "camera"
         THEN [mp EXCEPT ![<< m.channelName, m.targetUid >>].is_camera_off = ~m.state]
         ELSE [mp EXCEPT ![<< m.channelName, m.targetUid >>].is_muted = ~m.state]
    ELSE mp

\* SELECT * FROM chat_messages WHERE channel_name = ? ORDER BY created_at DESC LIMIT ?
\* Every result the statement may give: the rows of the channel, newest created_at
\* first, cut at limit; rows with equal created_at come in any order.
SelectResults(rows, channelName, limit) ==
    LET R == { r \in rows : r.channel_name = channelName }
        n == IF Cardinality(R) < limit THEN Cardinality(R) ELSE limit
    IN  { s \in [1..n -> R] :
            /\ \A i \in 1..n, j \in 1..n :
                  i < j => s[i] # s[j] /\ s[i].created_at >= s[j].created_at
            /\ \A r \in R : (\A i \in 1..n : s[i] # r) =>
                  \A i \in 1..n : s[i].created_at >= r.created_at }

\* msg.limit || 50: a missing limit and a limit of 0 both give 50.
DefaultLimit == 50
LimitOf(m) == IF "limit" \in DOMAIN m /\ m.limit # 0 THEN m.limit ELSE DefaultLimit

\* The result sets pool.query may resolve with for the statement of m.
ResultsOf(m) ==
    IF m.action = "get-messages"
    THEN SelectResults(chat_messages, m.channelName, LimitOf(m))
    ELSE { << >> }

\* ------------------------------------------------------------------ handlers
\* The frame taken in without its handler being started.
SuspendNotStarted(c, m) ==
    /\ CanReceive(c)
    /\ frames' = Append(frames, [conn |-> c, stage |-> "done", ok |-> TRUE, msg |-> m])
    /\ UNCHANGED << clientChannel, clientUid, natsSub, readyState, channels, subs, wire, inbox,
                    chat_messages, nextId, meeting_participants, timers, published,
                    lateSends >>

\* A handler that reaches `await pool.query(...)`: the frame is recorded at
\* stage "query" and the handler is suspended.
Suspend(c, m) ==
    /\ CanReceive(c)
    /\ frames' = Append(frames, [conn |-> c, stage |-> "query", ok |-> TRUE, msg |-> m])
    /\ UNCHANGED << clientChannel, clientUid, natsSub, readyState, channels, subs, wire, inbox,
                    chat_messages, nextId, meeting_participants, timers, published,
                    lateSends >>

\* case 'get-messages'
GetMessages(c, channelName, limit) ==
    Suspend(c, [action |-> "get-messages", channelName |-> channelName,
                uid |-> UidOf(c), limit |-> limit])

\* case 'get-messages', the frame carrying no limit
GetMessagesNoLimit(c, channelName) ==
    Suspend(c, [action |-> "get-messages", channelName |-> channelName, uid |-> UidOf(c)])

\* case 'send-message'
SendMessage(c, channelName) ==
    Suspend(c, [action |-> "send-message", channelName |-> channelName,
                uid |-> UidOf(c), username |-> "Alice", message |-> "hi"])

\* case 'update-status'
UpdateStatus(c, channelName, isCameraOff, isMuted) ==
    Suspend(c, [action |-> "update-status", channelName |-> channelName,
                uid |-> UidOf(c), isCameraOff |-> isCameraOff, isMuted |-> isMuted])

\* case 'delete-message'
DeleteMessage(c, channelName, messageId) ==
    Suspend(c, [action |-> "delete-message", channelName |-> channelName,
                uid |-> UidOf(c), messageId |-> messageId])

\* case 'toggle-device' with device 'camera' or 'mic'
ToggleDevice(c, channelName, device, state, targetUid) ==
    Suspend(c, [action |-> "toggle-device", channelName |-> channelName,
                uid |-> UidOf(c), device |-> device, state |-> state,
                targetUid |-> targetUid])

\* The effect of a handler's statement on the tables.
StoreApply(m) ==
    CASE m.action = "send-message" ->
           /\ chat_messages' = InsertMessage(chat_messages, nextId, m)
           /\ nextId' = nextId + 1
           /\ UNCHANGED meeting_participants
      [] m.action = "delete-message" ->
           /\ chat_messages' = DeleteMessageRows(chat_messages, m.messageId, m.channelName)
           /\ UNCHANGED << nextId, meeting_participants >>
      [] m.action = "update-status" ->
           /\ meeting_participants' = UpdateStatusRows(meeting_participants, m)
           /\ UNCHANGED << chat_messages, nextId >>
      [] m.action = "toggle-device" ->
           /\ meeting_participants' = ToggleRows(meeting_participants, m)
           /\ UNCHANGED << chat_messages, nextId >>
      [] OTHER -> UNCHANGED << chat_messages, nextId, meeting_participants >>

\* affectedRows of the statement's result.
AffectedRows(m) ==
    CASE m.action = "send-message" -> 1
      [] m.action = "delete-message" ->
           Cardinality(chat_messages
                         \ DeleteMessageRows(chat_messages, m.messageId, m.channelName))
      [] m.action = "update-status" ->
           IF << m.channelName, m.uid >> \in DOMAIN meeting_participants THEN 1 ELSE 0
      [] m.action = "toggle-device" ->
           IF << m.channelName, m.targetUid >> \in DOMAIN meeting_participants THEN 1 ELSE 0
      [] OTHER -> 0

\* pool.query resolves: the statement has run.
QueryDone(f) ==
    /\ f \in DOMAIN frames
    /\ frames[f].stage = "query"
    /\ StoreApply(frames[f].msg)
    /\ \E rs \in ResultsOf(frames[f].msg) :
          frames' = [frames EXCEPT ![f] =
             [conn |-> @.conn, stage |-> "resume", ok |-> TRUE, msg |-> @.msg,
              affectedRows |-> AffectedRows(@.msg),
              insertId |-> IF @.msg.action = "send-message" THEN nextId ELSE 0,
              rows |-> rs]]
    /\ UNCHANGED << clientChannel, clientUid, natsSub, readyState, channels, subs, wire, inbox,
                    timers, published, lateSends >>

\* pool.query rejects: the statement had no effect.
QueryFails(f) ==
    /\ f \in DOMAIN frames
    /\ frames[f].stage = "query"
    /\ frames' = [frames EXCEPT ![f] =
          [conn |-> @.conn, stage |-> "resume", ok |-> FALSE, msg |-> @.msg,
           affectedRows |-> 0,
           insertId |-> 0, rows |-> << >>]]
    /\ UNCHANGED << clientChannel, clientUid, natsSub, readyState, channels, subs, wire, inbox,
                    chat_messages, nextId, meeting_participants, timers, published,
                    lateSends >>

\* { action: 'new-message', channelName, data: newMsg }
NewMessageEvent(m, insertId) ==
    [action |-> "new-message", channelName |-> m.channelName,
     data |-> [id |-> insertId, channel_name |-> m.channelName, uid |-> m.uid,
               username |-> m.username, message |-> m.message,
               created_at |-> "new Date().toISOString()"]]

\* { action: 'participant-status-changed', channelName, data: { uid, isCameraOff, isMuted } }
StatusEvent(m) ==
    [action |-> "participant-status-changed", channelName |-> m.channelName,
     data |-> [uid |-> m.uid, isCameraOff |-> m.isCameraOff, isMuted |-> m.isMuted]]

\* { action: 'message-deleted', channelName, data: { messageId } }
DeletedEvent(m) ==
    [action |-> "message-deleted", channelName |-> m.channelName,
     data |-> [messageId |-> m.messageId]]

\* { action: 'device-toggled', channelName, data: { targetUid, device, state } }
ToggledEvent(m) ==
    [action |-> "device-toggled", channelName |-> m.channelName,
     data |-> [targetUid |-> m.targetUid, device |-> m.device, state |-> m.state]]

\* The callback's event with the flags not inverted.
ToggleStatusEventNotInverted(m) ==
    [action |-> "participant-status-changed", channelName |-> m.channelName,
     data |-> IF m.device = "camera" THEN [uid |-> m.targetUid, isCameraOff |-> m.state]
              ELSE IF m.device = "mic" THEN [uid |-> m.targetUid, isMuted |-> m.state]
              ELSE [uid |-> m.targetUid]]

\* The setTimeout callback's event: JSON.stringify leaves out the undefined flag.
ToggleStatusEvent(m) ==
    [action |-> "participant-status-changed", channelName |-> m.channelName,
     data |-> IF m.device = "camera" THEN [uid |-> m.targetUid, isCameraOff |-> ~m.state]
              ELSE IF m.device = "mic" THEN [uid |-> m.targetUid, isMuted |-> ~m.state]
              ELSE [uid |-> m.targetUid]]

\* { action: 'meeting-ended', channelName, endedBy: msg.username || 'Host' }
EndedEvent(m) ==
    [action |-> "meeting-ended", channelName |-> m.channelName,
     endedBy |-> IF m.username = "" THEN "Host" ELSE m.username]

\* The event a resumed handler publishes.
EventOf(f) ==
    LET m == frames[f].msg IN
    CASE m.action = "send-message"   -> NewMessageEvent(m, frames[f].insertId)
      [] m.action = "update-status"  -> StatusEvent(m)
      [] m.action = "delete-message" -> DeletedEvent(m)
      [] m.action = "toggle-device"  -> ToggledEvent(m)

\* The code after the await skipped altogether once the socket is not open.
ResumeOkDroppedWhenClosed(f) ==
    LET m == frames[f].msg
        c == frames[f].conn
    IN  IF readyState[c] # "OPEN"
        THEN UNCHANGED << inbox, lateSends, wire, published, timers >>
        ELSE IF m.action = "get-messages"
        THEN /\ WsSend(c, Reply(f, [action |-> "messages", channelName |-> m.channelName,
                                    data |-> frames[f].rows]))
             /\ UNCHANGED << wire, published, timers >>
        ELSE /\ Publish(Topic(m.channelName), EventOf(f), f)
             /\ timers' = IF m.action = "toggle-device" THEN Append(timers, f) ELSE timers
             /\ UNCHANGED << inbox, lateSends >>

\* The code after the await of a handler whose query resolved.
ResumeOk(f) ==
    LET m == frames[f].msg
        c == frames[f].conn
    IN  IF m.action = "get-messages"
        THEN /\ WsSend(c, Reply(f, [action |-> "messages", channelName |-> m.channelName,
                                    data |-> frames[f].rows]))
             /\ UNCHANGED << wire, published, timers >>
        ELSE /\ Publish(Topic(m.channelName), EventOf(f), f)
             /\ timers' = IF m.action = "toggle-device" THEN Append(timers, f) ELSE timers
             /\ UNCHANGED << inbox, lateSends >>

\* The handler continuing as if its query had resolved, whatever its outcome.
ResumeIgnoringFailure(f) ==
    /\ f \in DOMAIN frames
    /\ frames[f].stage = "resume"
    /\ ResumeOk(f)
    /\ frames' = [frames EXCEPT ![f].stage = "done"]
    /\ UNCHANGED << clientChannel, clientUid, natsSub, readyState, channels, subs,
                    chat_messages, nextId, meeting_participants >>

\* The handler continues after its await: the rest of the case, or the catch block.
Resume(f) ==
    /\ f \in DOMAIN frames
    /\ frames[f].stage = "resume"
    /\ IF frames[f].ok
       THEN ResumeOk(f)
       ELSE /\ CatchSend(frames[f].conn, f, "query")
            /\ UNCHANGED << wire, published, timers >>
    /\ frames' = [frames EXCEPT ![f].stage = "done"]
    /\ UNCHANGED << clientChannel, clientUid, natsSub, readyState, channels, subs,
                    chat_messages, nextId, meeting_participants >>

\* setTimeout(() => nc.publish(... 'participant-status-changed' ...), 100)
TimerFire ==
    /\ timers # << >>
    /\ Publish(Topic(frames[Head(timers)].msg.channelName),
               ToggleStatusEvent(frames[Head(timers)].msg), Head(timers))
    /\ timers' = Tail(timers)
    /\ UNCHANGED << clientChannel, clientUid, natsSub, readyState, channels, subs, inbox,
                    chat_messages, nextId, meeting_participants, frames, lateSends >>

\* case 'toggle-device' with any other device: no query, no await.
ToggleOtherDevice(c, channelName, state, targetUid) ==
    LET fid == Len(frames) + 1
        m == [action |-> "toggle-device", channelName |-> channelName, uid |-> UidOf(c),
              device |-> "speaker", state |-> state, targetUid |-> targetUid]
    IN  /\ CanReceive(c)
        /\ Publish(Topic(channelName), ToggledEvent(m), fid)
        /\ timers' = Append(timers, fid)
        /\ frames' = Append(frames, [conn |-> c, stage |-> "done", ok |-> TRUE, msg |-> m])
        /\ UNCHANGED << clientChannel, clientUid, natsSub, readyState, channels, subs, inbox,
                        chat_messages, nextId, meeting_participants, lateSends >>

\* end-meeting published on the topic of the channel the sender has joined.
EndMeetingOnJoinedChannel(c, channelName, username) ==
    LET fid == Len(frames) + 1
        m == [action |-> "end-meeting", channelName |-> channelName, uid |-> UidOf(c),
              username |-> username]
    IN  /\ CanReceive(c)
        /\ Publish(Topic(clientChannel[c]), EndedEvent(m), fid)
        /\ frames' = Append(frames, [conn |-> c, stage |-> "done", ok |-> TRUE, msg |-> m])
        /\ UNCHANGED << clientChannel, clientUid, natsSub, readyState, channels, subs, inbox,
                        chat_messages, nextId, meeting_participants, timers, lateSends >>

\* case 'end-meeting'
EndMeeting(c, channelName, username) ==
    LET fid == Len(frames) + 1
        m == [action |-> "end-meeting", channelName |-> channelName, uid |-> UidOf(c),
              username |-> username]
    IN  /\ CanReceive(c)
        /\ Publish(Topic(channelName), EndedEvent(m), fid)
        /\ frames' = Append(frames, [conn |-> c, stage |-> "done", ok |-> TRUE, msg |-> m])
        /\ UNCHANGED << clientChannel, clientUid, natsSub, readyState, channels, subs, inbox,
                        chat_messages, nextId, meeting_participants, timers, lateSends >>

\* The frame of an unknown action answered with an error event.
UnknownActionAnswered(c, channelName) ==
    /\ CanReceive(c)
    /\ CatchSend(c, Len(frames) + 1, "unknown action")
    /\ frames' = Append(frames, [conn |-> c, stage |-> "done", ok |-> TRUE,
                                 msg |-> [action |-> "ping", channelName |-> channelName]])
    /\ UNCHANGED << clientChannel, clientUid, natsSub, readyState, channels, subs, wire,
                    chat_messages, nextId, meeting_participants, timers, published >>

\* switch (action) with no matching case
UnknownAction(c, channelName) ==
    /\ CanReceive(c)
    /\ frames' = Append(frames, [conn |-> c, stage |-> "done", ok |-> TRUE,
                                 msg |-> [action |-> "ping", channelName |-> channelName]])
    /\ UNCHANGED << clientChannel, clientUid, natsSub, readyState, channels, subs, wire, inbox,
                    chat_messages, nextId, meeting_participants, timers, published,
                    lateSends >>

\* The frame that cannot be parsed dropped without a reply.
MalformedDropped(c) ==
    /\ CanReceive(c)
    /\ frames' = Append(frames, [conn |-> c, stage |-> "done", ok |-> FALSE,
                                 msg |-> [action |-> "malformed"]])
    /\ UNCHANGED << clientChannel, clientUid, natsSub, readyState, channels, subs, wire,
                    chat_messages, nextId, meeting_participants, timers, published,
                    inbox, lateSends >>

\* JSON.parse(raw) throws (or the destructuring of a null message does)
Malformed(c) ==
    LET fid == Len(frames) + 1 IN
    /\ CanReceive(c)
    /\ CatchSend(c, fid, "parse")
    /\ frames' = Append(frames, [conn |-> c, stage |-> "done", ok |-> FALSE,
                                 msg |-> [action |-> "malformed"]])
    /\ UNCHANGED << clientChannel, clientUid, natsSub, readyState, channels, subs, wire,
                    chat_messages, nextId, meeting_participants, timers, published >>

Next ==
    \/ \E c \in Conns, ch \in Chans \cup {Wild} : Join(c, ch)
    \/ \E c \in Conns, ch \in Chans : JoinSubscribeThrows(c, ch)
    \/ \E c \in Conns, ch \in Chans, n \in {0, 1} : GetMessages(c, ch, n)
    \/ \E c \in Conns, ch \in Chans : GetMessagesNoLimit(c, ch)
    \/ \E c \in Conns, ch \in Chans : SendMessage(c, ch)
    \/ \E c \in Conns, ch \in Chans, a \in BOOLEAN, b \in BOOLEAN : UpdateStatus(c, ch, a, b)
    \/ \E c \in Conns, ch \in Chans, id \in MsgIds : DeleteMessage(c, ch, id)
    \/ \E c \in Conns, ch \in Chans, d \in Devices, st \in BOOLEAN, t \in Uids :
          ToggleDevice(c, ch, d, st, t)
    \/ \E c \in Conns, ch \in Chans, st \in BOOLEAN, t \in Uids :
          ToggleOtherDevice(c, ch, st, t)
    \/ \E c \in Conns, ch \in Chans, u \in {"", "Alice"} : EndMeeting(c, ch, u)
    \/ \E c \in Conns, ch \in Chans : UnknownAction(c, ch)
    \/ \E c \in Conns : Malformed(c)
    \/ \E f \in DOMAIN frames : QueryDone(f)
    \/ \E f \in DOMAIN frames : QueryFails(f)
    \/ \E f \in DOMAIN frames : Resume(f)
    \/ TimerFire
    \/ Forward
    \/ \E c \in Conns : BeginClose(c)
    \/ \E c \in Conns : OnClose(c)

Spec == Init /\ [][Next]_vars

\* Joins, closes and chat messages: membership, subscriptions and fan-out.
NextRelay ==
    \/ \E c \in Conns, ch \in Chans \cup {Wild} : Join(c, ch)
    \/ \E c \in Conns, ch \in Chans : SendMessage(c, ch)
    \/ \E f \in DOMAIN frames : QueryDone(f)
    \/ \E f \in DOMAIN frames : Resume(f)
    \/ Forward
    \/ \E c \in Conns : BeginClose(c)
    \/ \E c \in Conns : OnClose(c)

SpecRelay == Init /\ [][NextRelay]_vars

\* Joins, closes and a publisher that needs no store: the forwarding loop.
NextForward ==
    \/ \E c \in Conns, ch \in Chans \cup {Wild} : Join(c, ch)
    \/ \E c \in Conns, ch \in Chans, u \in {"", "Alice"} : EndMeeting(c, ch, u)
    \/ Forward
    \/ \E c \in Conns : BeginClose(c)
    \/ \E c \in Conns : OnClose(c)

SpecForward == Init /\ [][NextForward]_vars

\* The runs below take fewer frames: every frame of theirs waits on the store.
StoreRun == Len(frames) < MaxStoreFrames

\* Remote device control: the two publishes of toggle-device.
NextToggle ==
    \/ \E c \in Conns, ch \in Chans : StoreRun /\ Join(c, ch)
    \/ \E d \in Devices, st \in BOOLEAN : StoreRun /\ ToggleDevice("w1", "A", d, st, "u1")
    \/ \E st \in BOOLEAN : StoreRun /\ ToggleOtherDevice("w1", "A", st, "u1")
    \/ \E f \in DOMAIN frames : QueryDone(f)
    \/ \E f \in DOMAIN frames : QueryFails(f)
    \/ \E f \in DOMAIN frames : Resume(f)
    \/ TimerFire
    \/ Forward
    \/ \E c \in Conns : BeginClose(c)
    \/ \E c \in Conns : OnClose(c)

SpecToggle == Init /\ [][NextToggle]_vars

\* Chat rows: insert and delete.
NextDelete ==
    \/ \E c \in Conns, ch \in Chans : StoreRun /\ Join(c, ch)
    \/ \E ch \in Chans : StoreRun /\ SendMessage("w1", ch)
    \/ \E ch \in Chans, id \in MsgIds : StoreRun /\ DeleteMessage("w2", ch, id)
    \/ \E f \in DOMAIN frames : QueryDone(f)
    \/ \E f \in DOMAIN frames : QueryFails(f)
    \/ \E f \in DOMAIN frames : Resume(f)
    \/ Forward
    \/ \E c \in Conns : BeginClose(c)
    \/ \E c \in Conns : OnClose(c)

SpecDelete == Init /\ [][NextDelete]_vars

\* Reading back a channel's history: the store already holds rows of earlier runs.
HistoryRow(id, channelName) ==
    [id |-> id, channel_name |-> channelName, uid |-> "u1", username |-> "Alice",
     message |-> "hi", created_at |-> ClockAt(id)]

InitHistory ==
    /\ clientChannel = [c \in Conns |-> Null]
    /\ clientUid = [c \in Conns |-> Null]
    /\ natsSub = [c \in Conns |-> 0]
    /\ readyState = [c \in Conns |-> "OPEN"]
    /\ channels = << >>
    /\ subs = << >>
    /\ wire = << >>
    /\ inbox = [c \in Conns |-> << >>]
    /\ chat_messages = { HistoryRow(id, "A") : id \in 1..5 } \cup { HistoryRow(6, "B") }
    /\ nextId = 7
    /\ meeting_participants =
           [k \in {<<"A", "u1">>} |-> [is_camera_off |-> FALSE, is_muted |-> FALSE]]
    /\ frames = << >>
    /\ timers = << >>
    /\ published = << >>
    /\ lateSends = {}

NextHistory ==
    \/ \E ch \in Chans, n \in {0, 1, 2} : StoreRun /\ GetMessages("w1", ch, n)
    \/ \E ch \in Chans : StoreRun /\ GetMessagesNoLimit("w1", ch)
    \/ \E ch \in Chans : StoreRun /\ SendMessage("w2", ch)
    \/ \E f \in DOMAIN frames : QueryDone(f)
    \/ \E f \in DOMAIN frames : QueryFails(f)
    \/ \E f \in DOMAIN frames : Resume(f)
    \/ \E c \in Conns : BeginClose(c)
    \/ \E c \in Conns : OnClose(c)

SpecHistory == InitHistory /\ [][NextHistory]_vars

\* Participant status: update-status and the events it publishes.
NextStatus ==
    \/ \E c \in Conns, ch \in Chans : StoreRun /\ Join(c, ch)
    \/ \E c \in Conns, ch \in Chans, a \in BOOLEAN, b \in BOOLEAN :
          StoreRun /\ UpdateStatus(c, ch, a, b)
    \/ \E f \in DOMAIN frames : QueryDone(f)
    \/ \E f \in DOMAIN frames : QueryFails(f)
    \/ \E f \in DOMAIN frames : Resume(f)
    \/ Forward
    \/ \E c \in Conns : BeginClose(c)
    \/ \E c \in Conns : OnClose(c)

SpecStatus == Init /\ [][NextStatus]_vars

\* Frames that are answered or dropped at once: the dispatch of the switch.
NextDispatch ==
    \/ \E c \in Conns, ch \in Chans : Join(c, ch)
    \/ \E c \in Conns : Malformed(c)
    \/ \E c \in Conns, ch \in Chans : UnknownAction(c, ch)
    \/ \E c \in Conns, ch \in Chans : EndMeeting(c, ch, "Alice")
    \/ Forward
    \/ \E c \in Conns : BeginClose(c)
    \/ \E c \in Conns : OnClose(c)

SpecDispatch == Init /\ [][NextDispatch]_vars

\* The five handlers that wait on the store, each of whose queries may reject.
NextStoreFail ==
    \/ \E c \in Conns : StoreRun /\ Join(c, "A")
    \/ StoreRun /\ GetMessages("w1", "A", 1)
    \/ StoreRun /\ SendMessage("w1", "A")
    \/ StoreRun /\ UpdateStatus("w1", "A", TRUE, FALSE)
    \/ StoreRun /\ DeleteMessage("w1", "A", 1)
    \/ StoreRun /\ ToggleDevice("w1", "A", "camera", FALSE, "u1")
    \/ \E f \in DOMAIN frames : QueryDone(f)
    \/ \E f \in DOMAIN frames : QueryFails(f)
    \/ \E f \in DOMAIN frames : Resume(f)
    \/ TimerFire
    \/ Forward
    \/ \E c \in Conns : BeginClose(c)
    \/ \E c \in Conns : OnClose(c)

SpecStoreFail == Init /\ [][NextStoreFail]_vars

\* Joins whose nc.subscribe may throw (the broker connection closed or draining).
NextSubscribe ==
    \/ \E c \in Conns, ch \in Chans : Join(c, ch)
    \/ \E c \in Conns, ch \in Chans : JoinSubscribeThrows(c, ch)
    \/ \E c \in Conns, ch \in Chans : EndMeeting(c, ch, "Alice")
    \/ Forward
    \/ \E c \in Conns : BeginClose(c)
    \/ \E c \in Conns : OnClose(c)

SpecSubscribe == Init /\ [][NextSubscribe]_vars

\* The five publishing handlers, sent by a connection whatever it has joined.
NextRoute ==
    \/ \E c \in Conns, ch \in Chans : StoreRun /\ Join(c, ch)
    \/ \E ch \in Chans : StoreRun /\ SendMessage("w1", ch)
    \/ StoreRun /\ UpdateStatus("w1", "A", TRUE, TRUE)
    \/ StoreRun /\ DeleteMessage("w1", "A", 1)
    \/ StoreRun /\ ToggleDevice("w1", "A", "mic", TRUE, "u1")
    \/ \E ch \in Chans : StoreRun /\ EndMeeting("w1", ch, "Alice")
    \/ \E f \in DOMAIN frames : QueryDone(f)
    \/ \E f \in DOMAIN frames : Resume(f)
    \/ TimerFire
    \/ Forward
    \/ \E c \in Conns : BeginClose(c)
    \/ \E c \in Conns : OnClose(c)

SpecRoute == Init /\ [][NextRoute]_vars

\* A joined connection that closes while its handlers wait on the store or on
\* the timer, another connection staying.
NextClose ==
    \/ \E c \in Conns : Join(c, "A")
    \/ ToggleDevice("w1", "A", "camera", FALSE, "u1")
    \/ GetMessages("w1", "A", 1)
    \/ \E f \in DOMAIN frames : QueryDone(f)
    \/ \E f \in DOMAIN frames : QueryFails(f)
    \/ \E f \in DOMAIN frames : Resume(f)
    \/ TimerFire
    \/ Forward
    \/ BeginClose("w1")
    \/ OnClose("w1")

SpecClose == Init /\ [][NextClose]_vars

\* ================================================================== properties
AllNames == Chans \cup {Wild}
LiveSubsOf(c) == { i \in DOMAIN subs : subs[i].owner = c /\ subs[i].live }
Members(X) == IF X \in DOMAIN channels THEN channels[X] ELSE {}
\* Copies of a published payload written to c's transport, and still on the wire for c.
Delivered(c, p) == Cardinality({ i \in DOMAIN inbox[c] : inbox[c][i] = p })
Pending(c, p) ==
    Cardinality({ i \in DOMAIN wire : wire[i].payload = p /\ subs[wire[i].sub].owner = c })

\* C1: a connection (whose close handler has not run) has a live subscription
\* iff its clientChannel is non-null, and every live subscription of it is on the
\* topic of its current clientChannel.
C1_SubscriptionIffChannel ==
    \A c \in Conns :
        readyState[c] # "CLOSED" =>
            /\ (LiveSubsOf(c) # {}) <=> (clientChannel[c] # Null)
            /\ \A i \in LiveSubsOf(c) : subs[i].subject = Topic(clientChannel[c])

\* C2: c is in the member set of channel X iff c holds a live subscription on
\* the topic of X.
C2_MemberIffSubscribed ==
    \A c \in Conns, X \in AllNames :
        (c \in Members(X)) <=> (\E i \in LiveSubsOf(c) : subs[i].subject = Topic(X))

\* C3: an event published on the topic of X while c was joined to X reaches c
\* exactly once: while c stays open, the copies written to c plus the copies
\* still on their way to c are exactly one.
C3_ExactlyOnce ==
    \A k \in DOMAIN published, c \in Conns :
        ( /\ readyState[c] = "OPEN"
          /\ \E i \in published[k].to :
                subs[i].owner = c /\ subs[i].subject = published[k].topic )
        => Delivered(c, published[k].payload) + Pending(c, published[k].payload) = 1

\* C4: after the close handler of c has run, no subscription created for c is live.
C4_NoLeakedSubscription ==
    \A c \in Conns : readyState[c] = "CLOSED" => LiveSubsOf(c) = {}

\* C5: after the close handler of c has run, c is in no channel's member set.
C5_NoStaleMembership ==
    \A c \in Conns : readyState[c] = "CLOSED" => \A X \in DOMAIN channels : c \notin channels[X]

\* C7: a send-message that succeeded has inserted one row, published one
\* new-message event, and that event reaches every connection that was a member
\* of the channel at publish time exactly once (copies written plus copies on
\* their way, while the member stays open).
C7_SendMessageOnce ==
    \A f \in DOMAIN frames :
        ( /\ frames[f].msg.action = "send-message"
          /\ frames[f].stage = "done"
          /\ frames[f].ok )
        => /\ Cardinality({ r \in chat_messages : r.id = frames[f].insertId }) = 1
           /\ Cardinality({ k \in DOMAIN published : published[k].payload.fid = f }) = 1
           /\ \A k \in DOMAIN published :
                 published[k].payload.fid = f =>
                    /\ published[k].payload.msg.action = "new-message"
                    /\ \A c \in published[k].members :
                          readyState[c] = "OPEN" =>
                             Delivered(c, published[k].payload)
                               + Pending(c, published[k].payload) = 1

\* C8: distinct channel names have distinct topics, and a published event is
\* written only to connections that joined the channel it was published for.
C8_OnlySubscribers ==
    /\ \A a \in AllNames, b \in AllNames : a # b => Topic(a) # Topic(b)
    /\ \A c \in Conns : \A i \in DOMAIN inbox[c] :
          inbox[c][i].pid # 0 =>
             \E j \in DOMAIN subs :
                /\ subs[j].owner = c
                /\ subs[j].subject = published[inbox[c][i].pid].topic

\* C6: once a connection's transport is not open, nothing is written to it
\* again, and the forwarding loop never calls ws.send on a transport that is not
\* open (every such call comes from a handler's reply, pid 0): a payload that
\* arrives for it is taken off the wire and dropped.
C6_NoWriteAfterClose ==
    [][ /\ \A c \in Conns : readyState[c] # "OPEN" => inbox'[c] = inbox[c]
        /\ \A e \in lateSends' : e[2] = 0 ]_vars

\* A payload routed to a subscription that is still live, whose owner is not
\* open, has left the wire without being written: the loop dropped it.
C6_Witness ==
    \E k \in DOMAIN published : \E i \in published[k].to :
        /\ subs[i].live
        /\ readyState[subs[i].owner] # "OPEN"
        /\ \A j \in DOMAIN wire :
              ~(wire[j].sub = i /\ wire[j].payload = published[k].payload)
        /\ Delivered(subs[i].owner, published[k].payload) = 0

\* C9: the participant-status-changed event of a toggle-device frame is published
\* after the device-toggled event of the same frame; a connection that was a
\* member of the channel when device-toggled was published is written
\* device-toggled before that participant-status-changed; for device "mic" the
\* later event carries isMuted = ~state.
IsToggleStatus(p) ==
    /\ p.pid # 0
    /\ p.msg.action = "participant-status-changed"
    /\ frames[p.fid].msg.action = "toggle-device"

IsToggled(p, f) == p.fid = f /\ p.msg.action = "device-toggled"

NoRowMatches(m) ==
    \A r \in chat_messages : ~(r.id = m.messageId /\ r.channel_name = m.channelName)

C10_DeleteNothingStillPublishes ==
    [][ /\ \A f \in DOMAIN frames :
             ( /\ frames[f].msg.action = "delete-message"
               /\ frames[f].stage = "query"
               /\ frames'[f].stage = "resume"
               /\ frames'[f].ok
               /\ NoRowMatches(frames[f].msg) )
             => /\ chat_messages' = chat_messages
                /\ frames'[f].affectedRows = 0
        /\ \A f \in DOMAIN frames' :
             ( /\ frames'[f].msg.action = "delete-message"
               /\ frames'[f].stage = "done"
               /\ frames'[f].ok
               /\ frames'[f].affectedRows = 0 )
             => /\ Cardinality({ k \in DOMAIN published' :
                                    published'[k].payload.fid = f }) = 1
                /\ \A k \in DOMAIN published' :
                      published'[k].payload.fid = f =>
                         /\ published'[k].topic = Topic(frames'[f].msg.channelName)
                         /\ published'[k].payload.msg.action = "message-deleted"
                         /\ published'[k].payload.msg.data.messageId
                               = frames'[f].msg.messageId ]_vars

\* A delete-message whose id exists only in another channel has completed: the
\* row is still there and the event is out.
C10_Witness ==
    \E f \in DOMAIN frames :
        /\ frames[f].msg.action = "delete-message"
        /\ frames[f].stage = "done"
        /\ frames[f].ok
        /\ frames[f].affectedRows = 0
        /\ \E r \in chat_messages : r.id = frames[f].msg.messageId
        /\ \E k \in DOMAIN published :
              /\ published[k].payload.fid = f
              /\ published[k].payload.msg.action = "message-deleted"

\* C11: the SELECT of a get-messages frame for channel X with limit N (50 when
\* the frame carries no limit) resolves with min(N, count) distinct rows of X,
\* newest created_at first, none of them older than a row left out; the handler
\* then replies to the requesting connection only and publishes nothing.
RequestedLimit(m) == IF "limit" \in DOMAIN m THEN m.limit ELSE DefaultLimit

IsNewestFirst(rs, R, n) ==
    /\ Len(rs) = (IF Cardinality(R) < n THEN Cardinality(R) ELSE n)
    /\ \A i \in DOMAIN rs : rs[i] \in R
    /\ \A i \in DOMAIN rs, j \in DOMAIN rs :
          i < j => rs[i] # rs[j] /\ rs[i].created_at >= rs[j].created_at
    /\ \A r \in R : (\A i \in DOMAIN rs : rs[i] # r) =>
          \A i \in DOMAIN rs : rs[i].created_at >= r.created_at

C11_GetMessagesNewest ==
    [][ \A f \in DOMAIN frames :
          frames[f].msg.action = "get-messages" =>
             /\ ( /\ frames[f].stage = "query"
                  /\ frames'[f].stage = "resume"
                  /\ frames'[f].ok )
                => IsNewestFirst(frames'[f].rows,
                                 { r \in chat_messages :
                                      r.channel_name = frames[f].msg.channelName },
                                 RequestedLimit(frames[f].msg))
             /\ ( /\ frames[f].stage = "resume"
                  /\ frames'[f].stage = "done"
                  /\ frames[f].ok )
                => /\ published' = published
                   /\ wire' = wire
                   /\ \A c \in Conns \ {frames[f].conn} : inbox'[c] = inbox[c]
                   /\ readyState[frames[f].conn] = "OPEN" =>
                         inbox'[frames[f].conn] =
                            Append(inbox[frames[f].conn],
                                   Reply(f, [action |-> "messages",
                                             channelName |-> frames[f].msg.channelName,
                                             data |-> frames[f].rows])) ]_vars

\* C12: when the statement of an update-status frame for (channel, uid) with
\* flags (isCameraOff, isMuted) has run, meeting_participants holds a row keyed
\* by (channel, uid) with exactly those flags, whether or not one was there
\* before; the handler then publishes participant-status-changed with the same
\* flags on the channel's topic.
C12_UpdateStatusUpserts ==
    [][ \A f \in DOMAIN frames :
          frames[f].msg.action = "update-status" =>
             LET m == frames[f].msg
                 k == << m.channelName, m.uid >>
             IN  /\ ( /\ frames[f].stage = "query"
                      /\ frames'[f].stage = "resume"
                      /\ frames'[f].ok )
                    => /\ k \in DOMAIN meeting_participants'
                       /\ meeting_participants'[k] =
                             [is_camera_off |-> m.isCameraOff, is_muted |-> m.isMuted]
                 /\ ( /\ frames[f].stage = "resume"
                      /\ frames'[f].stage = "done"
                      /\ frames[f].ok )
                    => /\ Len(published') = Len(published) + 1
                       /\ published'[Len(published')].topic = Topic(m.channelName)
                       /\ published'[Len(published')].payload.msg =
                             [action |-> "participant-status-changed",
                              channelName |-> m.channelName,
                              data |-> [uid |-> m.uid, isCameraOff |-> m.isCameraOff,
                                        isMuted |-> m.isMuted]] ]_vars

\* The step that takes in a frame of the given action.
TakesIn(action) ==
    /\ Len(frames') = Len(frames) + 1
    /\ frames'[Len(frames')].msg.action = action

ErrorReply(fid, text) == Reply(fid, [action |-> "error", message |-> text])

\* C13: a frame that cannot be parsed gives exactly one error event, written to
\* the connection it came from; no other connection gets anything, nothing is
\* published, membership, subscriptions and the tables stay as they were, and
\* the connection stays open.
C13_MalformedOnlyReplies ==
    [][ TakesIn("malformed") =>
          LET fid == Len(frames')
              c == frames'[fid].conn
          IN  /\ inbox'[c] = Append(inbox[c], ErrorReply(fid, "parse"))
              /\ \A d \in Conns \ {c} : inbox'[d] = inbox[d]
              /\ readyState'[c] = "OPEN"
              /\ UNCHANGED << published, wire, timers, channels, subs, natsSub,
                              clientChannel, clientUid, readyState,
                              chat_messages, nextId, meeting_participants >> ]_vars

\* A later join of the same connection is answered and takes effect.
C13_Witness ==
    \E f \in DOMAIN frames, g \in DOMAIN frames :
       /\ f < g
       /\ frames[f].msg.action = "malformed"
       /\ frames[g].msg.action = "join"
       /\ frames[g].conn = frames[f].conn
       /\ frames[g].conn \in Members(frames[g].msg.channelName)
       /\ LiveSubsOf(frames[g].conn) # {}
       /\ inbox[frames[f].conn] =
             << ErrorReply(f, "parse"),
                Reply(g, [action |-> "joined", channelName |-> frames[g].msg.channelName]) >>

StoreActions ==
    {"get-messages", "send-message", "update-status", "delete-message", "toggle-device"}

\* The places of the inboxes that hold something written for frame f.
WrittenFor(f, ib) ==
    { p \in UNION { {d} \X DOMAIN ib[d] : d \in Conns } : ib[p[1]][p[2]].fid = f }

\* C14: when the query of a send-message, update-status, delete-message,
\* toggle-device or get-messages frame rejects, the handler writes exactly one
\* error event, to the connection the frame came from (an open one receives it,
\* a closed one cannot), and nothing to any other; nothing is published or
\* scheduled for the frame, then or later; membership, subscriptions and the
\* tables stay as they were; the query is not issued again.
C14_StoreFailureOnlyReplies ==
    [][ \A f \in DOMAIN frames :
          frames[f].msg.action \in StoreActions =>
             LET c == frames[f].conn IN
             /\ ( /\ frames[f].stage = "query"
                  /\ ~frames'[f].ok )
                => UNCHANGED << chat_messages, nextId, meeting_participants, inbox,
                                published, wire, timers, channels, subs >>
             /\ ( /\ frames[f].stage = "resume"
                  /\ ~frames[f].ok
                  /\ frames'[f].stage = "done" )
                => /\ inbox'[c] = IF readyState[c] = "OPEN"
                                  THEN Append(inbox[c], ErrorReply(f, "query"))
                                  ELSE inbox[c]
                   /\ \A d \in Conns \ {c} : inbox'[d] = inbox[d]
                   /\ UNCHANGED << published, wire, timers, channels, subs, natsSub,
                                   clientChannel, chat_messages, nextId,
                                   meeting_participants >>
             /\ ~frames[f].ok
                => /\ ~frames'[f].ok
                   /\ frames'[f].stage # "query"
                   /\ Cardinality(WrittenFor(f, inbox')) <= 1
                   /\ \A i \in DOMAIN published' : published'[i].payload.fid # f
                   /\ \A i \in DOMAIN timers' : timers'[i] # f ]_vars

\* A failed frame of an open connection, answered, while another connection
\* is a member of the frame's channel and has received nothing for it.
C14_Witness ==
    \E f \in DOMAIN frames :
       /\ frames[f].msg.action \in StoreActions
       /\ frames[f].stage = "done"
       /\ ~frames[f].ok
       /\ WrittenFor(f, inbox) = { << frames[f].conn, Len(inbox[frames[f].conn]) >> }
       /\ inbox[frames[f].conn][Len(inbox[frames[f].conn])] = ErrorReply(f, "query")
       /\ \E d \in Members(frames[f].msg.channelName) \ {frames[f].conn} :
             /\ readyState[d] = "OPEN"
             /\ LiveSubsOf(d) # {}
       /\ wire = << >>
       /\ published = << >>

\* C15: a join whose nc.subscribe throws writes an error event to the
\* connection it came from and leaves membership and subscriptions as they were
\* before the frame: the connection is not added to the channel's member set
\* and its associated channel does not change.
C15_FailedJoinLeavesNoTrace ==
    [][ ( /\ TakesIn("join")
          /\ ~frames'[Len(frames')].ok )
        => LET fid == Len(frames')
               c == frames'[fid].conn
           IN  /\ inbox'[c] = Append(inbox[c], ErrorReply(fid, "subscribe"))
               /\ channels' = channels
               /\ subs' = subs
               /\ natsSub' = natsSub
               /\ clientChannel' = clientChannel ]_vars

\* C16: a join releases nothing.  Every subscription that was live stays live
\* and every member stays a member; the joining connection is added to the
\* channel's member set (once, however often it joins) and gets one more live
\* subscription, on the channel's topic.  A subscription ends, and a member
\* leaves, only when its connection closes.
C16_JoinAccumulates ==
    [][ /\ ( /\ TakesIn("join")
             /\ frames'[Len(frames')].ok )
           => LET c == frames'[Len(frames')].conn
                  X == frames'[Len(frames')].msg.channelName
              IN  /\ \A i \in DOMAIN subs : subs'[i] = subs[i]
                  /\ DOMAIN subs' = DOMAIN subs \cup {Len(subs) + 1}
                  /\ subs'[Len(subs')] = [owner |-> c, subject |-> Topic(X), live |-> TRUE]
                  /\ \A Y \in DOMAIN channels : Y \in DOMAIN channels'
                  /\ \A Y \in DOMAIN channels' :
                        channels'[Y] = IF Y = X THEN Members(Y) \cup {c} ELSE Members(Y)
        /\ \A i \in DOMAIN subs :
              subs[i].live /\ ~subs'[i].live
                 => readyState[subs[i].owner] # "CLOSED" /\ readyState'[subs[i].owner] = "CLOSED"
        /\ \A Y \in DOMAIN channels : \A c \in channels[Y] \ channels'[Y] :
              readyState[c] # "CLOSED" /\ readyState'[c] = "CLOSED" ]_vars

\* join(A) then join(B), or the reverse, on one connection that is still open.
C16_Witness ==
    \E c \in Conns :
       /\ readyState[c] = "OPEN"
       /\ c \in Members("A") /\ c \in Members("B")
       /\ Cardinality(LiveSubsOf(c)) = 2
       /\ { subs[i].subject : i \in LiveSubsOf(c) } = { Topic("A"), Topic("B") }

\* C17: send-message handlers are started in arrival order and may overlap.
\* The handler of a frame is started, and its INSERT issued, in the step that
\* takes the frame in, before any later frame; frames keep their arrival order.
\* The row is persisted when that frame's own query resolves, with the next free
\* id, and the new-message event is published when that frame's own handler
\* resumes: both in the order of resolution, which need not be that of arrival.
C17_DispatchedInArrivalOrder ==
    [][ /\ Len(frames') >= Len(frames)
        /\ \A f \in DOMAIN frames :
              frames'[f].conn = frames[f].conn /\ frames'[f].msg = frames[f].msg
        /\ TakesIn("send-message")
              => /\ frames'[Len(frames')].stage = "query"
                 /\ UNCHANGED << chat_messages, nextId, published >>
        /\ \A f \in DOMAIN frames :
              frames[f].msg.action = "send-message" =>
                 /\ ( /\ frames[f].stage = "query"
                      /\ frames'[f].ok
                      /\ frames'[f].stage = "resume" )
                    => /\ frames'[f].insertId = nextId
                       /\ nextId' = nextId + 1
                       /\ \E r \in chat_messages' :
                             /\ r.id = nextId
                             /\ chat_messages' = chat_messages \cup {r}
                       /\ published' = published
                 /\ ( /\ frames[f].stage = "resume"
                      /\ frames[f].ok
                      /\ frames'[f].stage = "done" )
                    => /\ Len(published') = Len(published) + 1
                       /\ published'[Len(published')].payload.fid = f
                       /\ published'[Len(published')].payload.msg.data.id = frames[f].insertId
                       /\ chat_messages' = chat_messages ]_vars

\* Frames A then B of one connection, B's row persisted and B's event
\* published before A's.
C17_Witness ==
    \E A \in DOMAIN frames, B \in DOMAIN frames :
       /\ A < B
       /\ frames[A].conn = frames[B].conn
       /\ frames[A].msg.action = "send-message" /\ frames[B].msg.action = "send-message"
       /\ frames[A].stage = "done" /\ frames[B].stage = "done"
       /\ frames[A].ok /\ frames[B].ok
       /\ frames[B].insertId < frames[A].insertId
       /\ \E i \in DOMAIN published, j \in DOMAIN published :
             /\ published[i].payload.fid = B
             /\ published[j].payload.fid = A
             /\ i < j

\* The newest entry of the publish log is the event ev of frame f, routed to
\* every subscription that was live on its topic, one MSG each.
PublishedNow(f, ev) ==
    /\ Len(published') = Len(published) + 1
    /\ published'[Len(published')].payload = [pid |-> Len(published'), fid |-> f, msg |-> ev]
    /\ published'[Len(published')].to =
          { i \in DOMAIN subs : subs[i].live /\ subs[i].subject = Topic(ev.channelName) }
    /\ Len(wire') = Len(wire) + Cardinality(published'[Len(published')].to)
    /\ \A i \in published'[Len(published')].to :
          \E j \in DOMAIN wire' \ DOMAIN wire :
             wire'[j] = [sub |-> i, payload |-> published'[Len(published')].payload]

\* C18: for a frame whose connection is no longer open when its query resolves,
\* when its handler resumes or when its timer fires: the statement takes effect
\* on the tables, the handler publishes its event (and toggle-device schedules
\* and later publishes its second one) to every subscription live on the
\* channel's topic, and nothing is written to a connection that is not open:
\* no result, no forwarded event, no error reply.
C18_CloseDoesNotCancel ==
    [][ /\ \A c \in Conns : readyState[c] # "OPEN" => inbox'[c] = inbox[c]
        /\ \A f \in DOMAIN frames :
              ( readyState[frames[f].conn] # "OPEN" /\ frames[f].msg.action \in StoreActions )
              => LET m == frames[f].msg IN
                 /\ ( /\ frames[f].stage = "query"
                      /\ frames'[f].stage = "resume"
                      /\ frames'[f].ok )
                    => /\ m.action = "send-message"
                          => chat_messages' = InsertMessage(chat_messages, nextId, m)
                       /\ m.action = "delete-message"
                          => chat_messages'
                                = DeleteMessageRows(chat_messages, m.messageId, m.channelName)
                       /\ m.action = "update-status"
                          => meeting_participants' = UpdateStatusRows(meeting_participants, m)
                       /\ m.action = "toggle-device"
                          => meeting_participants' = ToggleRows(meeting_participants, m)
                 /\ ( /\ frames[f].stage = "resume"
                      /\ frames'[f].stage = "done"
                      /\ frames[f].ok )
                    => /\ m.action # "get-messages" => PublishedNow(f, EventOf(f))
                       /\ m.action = "get-messages" => published' = published
                       /\ m.action = "toggle-device" => timers' = Append(timers, f)
                 /\ ( /\ timers # << >>
                      /\ Head(timers) = f
                      /\ timers' = Tail(timers) )
                    => PublishedNow(f, ToggleStatusEvent(m)) ]_vars

\* A connection joins the channel, sends toggle-device and closes; both events
\* of the frame are published after the close handler has run (the connection
\* is no longer in the member set, nor its subscription routed to): the row is
\* updated, another member has been written both events, and the closed
\* connection nothing but the reply to its join.
C18_Witness ==
    \E j \in DOMAIN published, k \in DOMAIN published : \E d \in Conns :
       LET f == published[j].payload.fid
           c == frames[f].conn
       IN  /\ j < k
           /\ published[k].payload.fid = f
           /\ published[j].payload.msg.action = "device-toggled"
           /\ published[k].payload.msg.action = "participant-status-changed"
           /\ \E g \in 1..(f - 1) : frames[g].conn = c /\ frames[g].msg.action = "join"
           /\ c \notin published[j].members
           /\ \A i \in published[j].to \cup published[k].to : subs[i].owner # c
           /\ readyState[c] = "CLOSED"
           /\ Len(inbox[c]) = 1
           /\ d # c
           /\ Delivered(d, published[j].payload) = 1
           /\ Delivered(d, published[k].payload) = 1
           /\ meeting_participants[<< "A", "u1" >>].is_camera_off

\* C19: a well-formed frame whose action matches no case changes nothing but
\* the record of frames taken in: nothing is written to any connection, nothing
\* is published or scheduled, and the connection's channel, the member sets,
\* the subscriptions and the tables are as before.
C19_UnknownActionIsNoOp ==
    [][ TakesIn("ping") =>
          UNCHANGED << inbox, lateSends, published, wire, timers, clientChannel, clientUid,
                       natsSub, readyState, channels, subs, chat_messages, nextId,
                       meeting_participants >> ]_vars

\* A joined, open connection has sent a frame of an unknown action after its
\* join: all it has been written is the reply to the join.
C19_Witness ==
    \E f \in DOMAIN frames, g \in DOMAIN frames :
       /\ f < g
       /\ frames[f].msg.action = "join"
       /\ frames[g].msg.action = "ping"
       /\ frames[g].conn = frames[f].conn
       /\ readyState[frames[g].conn] = "OPEN"
       /\ clientChannel[frames[g].conn] = frames[f].msg.channelName
       /\ Len(inbox[frames[g].conn]) = 1
       /\ inbox[frames[g].conn][1].msg.action = "joined"
       /\ published = << >>

\* C20: every event is published on the topic of the channelName of its frame,
\* whatever channel the sending connection has joined, and is routed to the
\* subscriptions live on that topic; the row of a send-message is written for
\* that channelName; a published event is written only to a connection that
\* owns a subscription it was routed to, so a sender without one does not get
\* its own event.
C20_RoutedByFrameChannel ==
    [][ /\ Len(published') = Len(published) + 1
           => LET e == published'[Len(published')]
                  X == frames'[e.payload.fid].msg.channelName
              IN  /\ e.topic = Topic(X)
                  /\ e.payload.msg.channelName = X
                  /\ e.to = { i \in DOMAIN subs : subs[i].live /\ subs[i].subject = Topic(X) }
        /\ \A f \in DOMAIN frames :
              ( /\ frames[f].msg.action = "send-message"
                /\ frames[f].stage = "query"
                /\ frames'[f].stage = "resume"
                /\ frames'[f].ok )
              => \E r \in chat_messages' \ chat_messages :
                    r.id = nextId /\ r.channel_name = frames[f].msg.channelName
        /\ \A c \in Conns :
              ( /\ Len(inbox'[c]) = Len(inbox[c]) + 1
                /\ inbox'[c][Len(inbox'[c])].pid # 0 )
              => \E i \in published[inbox'[c][Len(inbox'[c])].pid].to : subs[i].owner = c ]_vars

\* A connection that has joined nothing has sent send-message for a channel:
\* the row is in the table under that channel, a member of the channel has been
\* written the event, and the sender has been written nothing.
C20_Witness ==
    \E k \in DOMAIN published : \E d \in Conns :
       LET f == published[k].payload.fid
           c == frames[f].conn
           X == frames[f].msg.channelName
       IN  /\ frames[f].msg.action = "send-message"
           /\ clientChannel[c] = Null
           /\ inbox[c] = << >>
           /\ \E r \in chat_messages : r.id = frames[f].insertId /\ r.channel_name = X
           /\ d # c
           /\ d \in Members(X)
           /\ Delivered(d, published[k].payload) = 1
           /\ wire = << >>

====
